---- MODULE Spec2Model ----
(***************************************************************************)
(* quick::hash (include/quick/hash.hpp): hashing of nested values by       *)
(* template specialisation.  The library is stateless; the state of the    *)
(* model is the record of the last call of an entry point: the entry       *)
(* point, its typed arguments, the specialisation selected for the first   *)
(* argument's type, and the value returned.                                *)
(*                                                                         *)
(* std::size_t is a 64-bit word, held as four 16-bit limbs (least          *)
(* significant first) because TLC's integers are 32-bit.                   *)
(* boost::hash_combine is modelled by the effect Boost documents for it,   *)
(*   seed ^= hash_value(v) + 0x9e3779b9 + (seed << 6) + (seed >> 2),       *)
(* and std::hash of an integral type by the identity (libstdc++, libc++).  *)
(***************************************************************************)
EXTENDS Integers, Sequences, FiniteSets, TLC

VARIABLES fn, args, rule, res, prev

vars == <<fn, args, rule, res, prev>>

(***************************************************************************)
(* Bounds of the model.                                                    *)
(***************************************************************************)
\* size_t inputs are 0..MaxVal, plus the word CollidingElem
MaxVal == 3
\* longest top-level sequence of scalars
MaxLen == 3
\* longest nested sequence
MaxInner == 1
\* most arguments of one HashFunction call
MaxArgs == 3
\* longest construction (insertions) of a container in SpecPair
MaxIns == 2

(***************************************************************************)
(* std::size_t arithmetic, modulo 2^WordBits.                              *)
(***************************************************************************)
WordBits == 64

Base == 2^16

NLimbs == WordBits \div 16

RECURSIVE ToWordFrom(_, _)
ToWordFrom(n, k) ==
  IF k = 0 THEN <<>> ELSE <<n % Base>> \o ToWordFrom(n \div Base, k - 1)

\* static_cast<std::size_t>(n) of a small non-negative integer
ToWord(n) == ToWordFrom(n, NLimbs)

Zero == ToWord(0)

RECURSIVE XorInt(_, _)
XorInt(x, y) ==
  IF x = 0 THEN y
  ELSE IF y = 0 THEN x
  ELSE 2 * XorInt(x \div 2, y \div 2) + ((x + y) % 2)

RECURSIVE XorFrom(_, _, _)
XorFrom(a, b, i) ==
  IF i > NLimbs THEN <<>> ELSE <<XorInt(a[i], b[i])>> \o XorFrom(a, b, i + 1)

Xor(a, b) == XorFrom(a, b, 1)

RECURSIVE AddFrom(_, _, _, _)
AddFrom(a, b, i, c) ==
  IF i > NLimbs THEN <<>>
  ELSE LET s == a[i] + b[i] + c
       IN  <<s % Base>> \o AddFrom(a, b, i + 1, s \div Base)

Add(a, b) == AddFrom(a, b, 1, 0)

RECURSIVE ShlFrom(_, _, _)
ShlFrom(a, k, i) ==
  IF i > NLimbs THEN <<>>
  ELSE <<((a[i] * 2^k) % Base)
          + (IF i = 1 THEN 0 ELSE a[i - 1] \div (Base \div 2^k))>>
       \o ShlFrom(a, k, i + 1)

\* a << k, for k below the limb width
Shl(a, k) == ShlFrom(a, k, 1)

RECURSIVE ShrFrom(_, _, _)
ShrFrom(a, k, i) ==
  IF i > NLimbs THEN <<>>
  ELSE <<(a[i] \div 2^k)
          + (IF i = NLimbs THEN 0 ELSE (a[i + 1] % 2^k) * (Base \div 2^k))>>
       \o ShrFrom(a, k, i + 1)

\* a >> k, for k below the limb width
Shr(a, k) == ShrFrom(a, k, 1)

RECURSIVE NotFrom(_, _)
NotFrom(a, i) ==
  IF i > NLimbs THEN <<>> ELSE <<Base - 1 - a[i]>> \o NotFrom(a, i + 1)

\* two's complement negation
Neg(a) == Add(NotFrom(a, 1), ToWord(1))

RECURSIVE WordLessFrom(_, _, _)
WordLessFrom(a, b, i) ==
  IF i = 0 THEN FALSE
  ELSE IF a[i] # b[i] THEN a[i] < b[i]
  ELSE WordLessFrom(a, b, i - 1)

\* unsigned a < b
WordLess(a, b) == WordLessFrom(a, b, NLimbs)

RECURSIVE PadWord(_)
PadWord(s) == IF Len(s) >= NLimbs THEN s ELSE PadWord(Append(s, 0))

\* 0x9e3779b9 = 0x9e37 * 2^16 + 0x79b9
Golden == PadWord(<<31161, 40503>>)

hash_combine_xor(seed, v) == Xor(seed, v)

\* boost::hash_combine(seed, v) for v a std::size_t; returns the new seed
hash_combine(seed, v) ==
  Xor(seed, Add(Add(Add(v, Golden), Shl(seed, 6)), Shr(seed, 2)))

(***************************************************************************)
(* Types.  A type is its template name and its template arguments.         *)
(* Color is an unscoped enum (Red = 0, Green = 1, Blue = 2); Wrapper is a  *)
(* class written as the header's comment prescribes,                       *)
(*   struct Wrapper { std::size_t id; std::vector<std::size_t> items;      *)
(*                    std::size_t GetHash() const                          *)
(*                      { return qk::HashFunction(id, items); } };         *)
(* Plain is a class with neither GetHash nor a std::hash specialisation.   *)
(***************************************************************************)
Ty(k, a) == [k |-> k, args |-> a]

SizeT == Ty("size_t", <<>>)

Bool == Ty("bool", <<>>)

Color == Ty("Color", <<>>)

Wrapper == Ty("Wrapper", <<>>)

Plain == Ty("Plain", <<>>)

Vector(E) == Ty("vector", <<E>>)

List(E) == Ty("list", <<E>>)

Set(E) == Ty("set", <<E>>)

Map(K, V) == Ty("map", <<K, V>>)

Pair(A, B) == Ty("pair", <<A, B>>)

Tuple(ts) == Ty("tuple", ts)

\* std::is_enum<T>::value
is_enum(T) == T.k = "Color"

\* decltype(&T::GetHash) is well-formed
has_GetHash(T) == T.k = "Wrapper"

\* std::hash<T> is an enabled specialisation of the standard library
has_std_hash(T) == T.k \in {"size_t", "bool", "Color"}

IsScalar(T) == T.k \in {"size_t", "bool", "Color"}

\* Container::value_type, MapContainer::key_type, MapContainer::mapped_type
value_type(T) == T.args[1]

key_type(T) == T.args[1]

mapped_type(T) == T.args[2]

(***************************************************************************)
(* Values.  size_t: a word; bool: a Boolean; Color: its ordinal; Wrapper:  *)
(* a record of its fields; vector, list: the sequence of elements; pair,   *)
(* tuple: the sequence of components; set: the sequence of elements in the *)
(* order they were inserted; map: the sequence of <<key, value>> in the    *)
(* order they were inserted.                                               *)
(***************************************************************************)
\* operator< of the key types
Less(T, a, b) ==
  CASE T.k = "size_t" -> WordLess(a, b)
    [] T.k = "bool" -> (~a) /\ b
    [] OTHER -> a < b

RECURSIVE SetInsert(_, _, _)
\* std::set::insert(x) on the sorted sequence s of distinct elements
SetInsert(E, s, x) ==
  IF Len(s) = 0 THEN <<x>>
  ELSE IF Head(s) = x THEN s
  ELSE IF Less(E, x, Head(s)) THEN <<x>> \o s
  ELSE <<Head(s)>> \o SetInsert(E, Tail(s), x)

RECURSIVE MapInsert(_, _, _)
\* std::map::insert(e): an entry whose key is present is not replaced
MapInsert(K, s, e) ==
  IF Len(s) = 0 THEN <<e>>
  ELSE IF Head(s)[1] = e[1] THEN s
  ELSE IF Less(K, e[1], Head(s)[1]) THEN <<e>> \o s
  ELSE <<Head(s)>> \o MapInsert(K, Tail(s), e)

RECURSIVE SortedFrom(_, _, _)
SortedFrom(T, input, acc) ==
  IF Len(input) = 0 THEN acc
  ELSE SortedFrom(T, Tail(input),
                  IF T.k = "set" THEN SetInsert(value_type(T), acc, Head(input))
                  ELSE MapInsert(key_type(T), acc, Head(input)))

Iterate_insertion_order(T, input) == input

\* for (auto& e : input): the elements from begin() to end()
Iterate(T, input) ==
  IF T.k \in {"set", "map"} THEN SortedFrom(T, input, <<>>) ELSE input

(***************************************************************************)
(* Implicit conversions between the scalar types (an unscoped enum and      *)
(* bool convert to size_t, size_t and the enum convert to bool).           *)
(***************************************************************************)
Convertible(From, To) ==
  \/ From = To
  \/ /\ From.k \in {"size_t", "bool", "Color"}
     /\ To.k \in {"size_t", "bool"}

Convert(From, To, v) ==
  IF From = To THEN v
  ELSE IF To.k = "size_t"
       THEN (IF From.k = "bool" THEN ToWord(IF v THEN 1 ELSE 0) ELSE ToWord(v))
  ELSE (IF From.k = "size_t" THEN v # Zero ELSE v # 0)

(***************************************************************************)
(* The dispatcher: the partial specialisations of hash_impl, and the       *)
(* primary template when none matches.                                     *)
(***************************************************************************)
Specializations_without_GetHash ==
  {"vector", "list", "set", "map", "pair", "tuple", "enum"}

Specializations ==
  {"vector", "list", "set", "map", "pair", "tuple", "enum", "GetHash"}

SpecMatches(s, T) ==
  CASE s = "enum" -> is_enum(T)
    [] s = "GetHash" -> has_GetHash(T)
    [] OTHER -> T.k = s

Matching(T) == {s \in Specializations : SpecMatches(s, T)}

\* the specialisation the compiler instantiates for hash_impl<T>
Select(T) ==
  IF Matching(T) = {} THEN "primary"
  ELSE IF Cardinality(Matching(T)) = 1 THEN CHOOSE s \in Matching(T) : TRUE
  ELSE "ambiguous"

RECURSIVE WellFormed(_)
RECURSIVE AllWellFormed(_)
AllWellFormed(ts) ==
  Len(ts) = 0 \/ (WellFormed(Head(ts)) /\ AllWellFormed(Tail(ts)))

\* hash_impl<T>()(t) compiles
WellFormed(T) ==
  CASE Select(T) = "primary" -> has_std_hash(T)
    [] Select(T) = "ambiguous" -> FALSE
    [] Select(T) = "map" ->
         /\ AllWellFormed(T.args)
         /\ Convertible(mapped_type(T), key_type(T))
    [] OTHER -> AllWellFormed(T.args)

(***************************************************************************)
(* The hash functions.                                                     *)
(***************************************************************************)
RECURSIVE hash_impl(_, _)
RECURSIVE SeqLoop(_, _, _)
RECURSIVE MapLoop(_, _, _)
RECURSIVE hashed_elements(_, _, _)
RECURSIVE HashFunctionRest(_, _)
RECURSIVE HashFunction(_)

\* std::hash<T>()(v)
StdHash(T, v) ==
  CASE T.k = "size_t" -> v
    [] T.k = "bool" -> ToWord(IF v THEN 1 ELSE 0)
    [] OTHER -> ToWord(v)

\* the loop of OrderedSequenceHash over the elements not yet visited
SeqLoop(E, it, hash) ==
  IF Len(it) = 0 THEN hash
  ELSE SeqLoop(E, Tail(it), hash_combine(hash, hash_impl(E, Head(it))))

RECURSIVE SeqLoop_reversed(_, _, _)
SeqLoop_reversed(E, it, hash) ==
  IF Len(it) = 0 THEN hash
  ELSE hash_combine(SeqLoop_reversed(E, Tail(it), hash), hash_impl(E, Head(it)))

OrderedSequenceHash_reversed(T, input) ==
  SeqLoop_reversed(value_type(T), Iterate(T, input),
                   hash_impl(SizeT, ToWord(Len(Iterate(T, input)))))

OrderedSequenceHash_unseeded(T, input) ==
  SeqLoop(value_type(T), Iterate(T, input), Zero)

OrderedSequenceHash(T, input) ==
  SeqLoop(value_type(T), Iterate(T, input),
          hash_impl(SizeT, ToWord(Len(Iterate(T, input)))))

\* the loop of OrderedMapHash: both combines use key_hasher
MapLoop(T, it, hash) ==
  IF Len(it) = 0 THEN hash
  ELSE LET e == Head(it)
           h1 == hash_combine(hash, hash_impl(key_type(T), e[1]))
           h2 == hash_combine(h1, hash_impl(key_type(T),
                                  Convert(mapped_type(T), key_type(T), e[2])))
       IN  MapLoop(T, Tail(it), h2)

OrderedMapHash(T, input) == MapLoop(T, Iterate(T, input), Zero)

PairHash_length_seeded(T, p) ==
  hash_combine(hash_combine(ToWord(2), hash_impl(T.args[1], p[1])),
               hash_impl(T.args[2], p[2]))

PairHash(T, p) ==
  hash_combine(hash_impl(T.args[1], p[1]), hash_impl(T.args[2], p[2]))

\* the std::vector<std::size_t> TupleHashImplHelper builds, from index i on
hashed_elements(T, input, i) ==
  IF i > Len(T.args) THEN <<>>
  ELSE <<hash_impl(T.args[i], input[i])>> \o hashed_elements(T, input, i + 1)

TupleHashImplHelper(T, input) ==
  OrderedSequenceHash(Vector(SizeT), hashed_elements(T, input, 1))

TupleHash(T, input) == TupleHashImplHelper(T, input)

Arg(T, v) == [T |-> T, v |-> v]

\* Wrapper::GetHash
GetHash(T, t) ==
  HashFunction(<<Arg(SizeT, t.id), Arg(Vector(SizeT), t.items)>>)

hash_impl(T, t) ==
  CASE Select(T) = "GetHash" -> GetHash(T, t)
    [] Select(T) = "enum" -> ToWord(t)
    [] Select(T) = "tuple" -> TupleHash(T, t)
    [] Select(T) = "pair" -> PairHash(T, t)
    [] Select(T) = "map" -> OrderedMapHash(T, t)
    [] Select(T) \in {"vector", "list", "set"} -> OrderedSequenceHash(T, t)
    [] OTHER -> StdHash(T, t)

\* quick::hash<T>()(t)
quick_hash(T, t) == hash_impl(T, t)

HashF(T, input) == quick_hash(T, input)

\* the pack expansion of HashFunction(i1, i2, is...), left to right
HashFunctionRest(is, hash_) ==
  IF Len(is) = 0 THEN hash_
  ELSE HashFunctionRest(Tail(is),
                        hash_combine(hash_, HashFunction(<<Head(is)>>)))

RECURSIVE HashFunctionRest_seeded(_, _)
HashFunctionRest_seeded(is, hash_) ==
  IF Len(is) = 0 THEN hash_
  ELSE HashFunctionRest_seeded(Tail(is),
                        hash_combine(hash_, quick_hash(Head(is).T, Head(is).v)))

HashFunction_seeded(as) == HashFunctionRest_seeded(as, Zero)

RECURSIVE HashFunctionRest_right(_)
HashFunctionRest_right(as) ==
  IF Len(as) = 1 THEN quick_hash(as[1].T, as[1].v)
  ELSE hash_combine(quick_hash(as[1].T, as[1].v), HashFunctionRest_right(Tail(as)))

HashFunction_right(as) ==
  IF Len(as) = 0 THEN Zero ELSE HashFunctionRest_right(as)

\* the three overloads of HashFunction, by the number of arguments
HashFunction(as) ==
  IF Len(as) = 0 THEN Zero
  ELSE IF Len(as) = 1 THEN quick_hash(as[1].T, as[1].v)
  ELSE HashFunctionRest(Tail(Tail(as)),
                        hash_combine(HashFunction(<<as[1]>>),
                                     HashFunction(<<as[2]>>)))

(***************************************************************************)
(* Inputs.                                                                 *)
(***************************************************************************)
\* the word x with hash_combine(1, x) = 0:  x = -(0x9e3779b9 + 63)
CollidingElem == Neg(Add(Golden, ToWord(63)))

SizeTVals == {ToWord(n) : n \in 0..MaxVal} \cup {CollidingElem}

SmallVals == {ToWord(1), ToWord(2)}

RECURSIVE SeqsOfLen(_, _)
SeqsOfLen(S, n) ==
  IF n = 0 THEN {<<>>}
  ELSE {Append(s, x) : s \in SeqsOfLen(S, n - 1), x \in S}

SeqsUpTo(S, n) == UNION {SeqsOfLen(S, k) : k \in 0..n}

RECURSIVE Vals(_, _)
RECURSIVE TupleVals(_, _)
\* the values of the component types ts, at nesting depth d
TupleVals(ts, d) ==
  IF Len(ts) = 0 THEN {<<>>}
  ELSE {<<x>> \o r : x \in Vals(Head(ts), d), r \in TupleVals(Tail(ts), d)}

\* the values of type T the model draws at nesting depth d
Vals(T, d) ==
  CASE T.k = "size_t" -> (IF d <= 1 THEN SizeTVals ELSE SmallVals)
    [] T.k = "bool" -> BOOLEAN
    [] T.k = "Color" -> {0, 1, 2}
    [] T.k = "Wrapper" ->
         [id : Vals(SizeT, d + 1), items : Vals(Vector(SizeT), d + 1)]
    [] T.k = "Plain" -> {[x |-> Zero]}
    [] T.k \in {"vector", "list", "set"} ->
         SeqsUpTo(Vals(value_type(T), d + 1),
                  IF d = 0 /\ IsScalar(value_type(T)) THEN MaxLen ELSE MaxInner)
    [] T.k = "map" ->
         SeqsUpTo(Vals(key_type(T), d + 2) \X Vals(mapped_type(T), d + 2),
                  IF IsScalar(mapped_type(T)) THEN MaxInner + 1 ELSE MaxInner)
    [] OTHER -> TupleVals(T.args, d + 1)

\* the types the entry points are instantiated with
HashTypes ==
  { SizeT, Bool, Color, Wrapper, Plain,
    Vector(SizeT), List(Color), Set(SizeT), Vector(Wrapper),
    Vector(Vector(SizeT)),
    Map(SizeT, SizeT), Map(Bool, SizeT), Map(SizeT, Bool), Map(SizeT, Wrapper),
    Pair(SizeT, SizeT), Pair(SizeT, Bool), Pair(Wrapper, Vector(SizeT)),
    Tuple(<<>>), Tuple(<<SizeT, SizeT>>), Tuple(<<SizeT, Bool>>),
    Tuple(<<Wrapper>>), Tuple(<<SizeT, Color, Vector(SizeT)>>) }

HashFTypes == {SizeT, Color, Vector(SizeT), Pair(SizeT, Bool)}

ArgTypes == {SizeT, Bool, Vector(SizeT)}

RECURSIVE ZipArgs(_, _)
\* the arguments of types ts and values vs
ZipArgs(ts, vs) ==
  IF Len(ts) = 0 THEN <<>>
  ELSE <<Arg(Head(ts), Head(vs))>> \o ZipArgs(Tail(ts), Tail(vs))

PairTypes ==
  { Vector(SizeT), Set(SizeT), Map(SizeT, SizeT), Map(Bool, SizeT),
    Pair(SizeT, Set(SizeT)) }

RECURSIVE Constructions(_)
\* the constructions of a value of type T: a container by at most MaxIns
\* insertions, in any order and with repetitions
Constructions(T) ==
  CASE T.k = "map" ->
         SeqsUpTo(Vals(key_type(T), 2) \X Vals(mapped_type(T), 2), MaxIns)
    [] T.k \in {"vector", "list", "set"} ->
         SeqsUpTo(IF value_type(T) = SizeT
                  THEN {ToWord(1), ToWord(2), ToWord(3)}
                  ELSE Constructions(value_type(T)), MaxIns)
    [] T.k = "pair" ->
         {<<a, b>> : a \in Constructions(T.args[1]),
                     b \in Constructions(T.args[2])}
    [] OTHER -> Vals(T, 2)

(***************************************************************************)
(* The calls.                                                              *)
(***************************************************************************)
Ok(h) == [ok |-> TRUE, h |-> h]

\* the instantiation does not compile: there is no value
IllFormed == [ok |-> FALSE, h |-> Zero]

Init ==
  /\ fn = "none"
  /\ args = <<>>
  /\ rule = "none"
  /\ res = Ok(Zero)
  /\ prev = <<>>

\* qk::hash<T>()(v)
CallHash(T, v) ==
  /\ fn = "none"
  /\ fn' = "hash"
  /\ args' = <<Arg(T, v)>>
  /\ rule' = Select(T)
  /\ res' = IF WellFormed(T) THEN Ok(quick_hash(T, v)) ELSE IllFormed
  /\ prev' = <<>>

\* qk::HashF(v)
CallHashF(T, v) ==
  /\ fn = "none"
  /\ fn' = "HashF"
  /\ args' = <<Arg(T, v)>>
  /\ rule' = Select(T)
  /\ res' = IF WellFormed(T) THEN Ok(HashF(T, v)) ELSE IllFormed
  /\ prev' = <<>>

\* qk::HashFunction(as...)
CallHashFunction(as) ==
  /\ fn = "none"
  /\ fn' = "HashFunction"
  /\ args' = as
  /\ rule' = IF Len(as) = 0 THEN "none" ELSE Select(as[1].T)
  /\ res' = IF \A i \in 1..Len(as) : WellFormed(as[i].T)
            THEN Ok(HashFunction(as)) ELSE IllFormed
  /\ prev' = <<>>

\* the caller takes the value returned
Return ==
  /\ fn # "none"
  /\ fn' = "none"
  /\ args' = <<>>
  /\ rule' = "none"
  /\ res' = Ok(Zero)
  /\ prev' = <<>>

Next ==
  \/ \E T \in HashTypes : \E v \in Vals(T, 0) : CallHash(T, v)
  \/ \E T \in HashFTypes : \E v \in Vals(T, 1) : CallHashF(T, v)
  \/ \E ts \in SeqsUpTo(ArgTypes, MaxArgs) :
       \E vs \in TupleVals(ts, 2) : CallHashFunction(ZipArgs(ts, vs))
  \/ Return

Spec == Init /\ [][Next]_vars

\* a container is constructed and hashed, then a second one of the same type;
\* the call before is kept
HashNext(T, v) ==
  /\ IF fn = "none" THEN TRUE ELSE Len(prev) = 0 /\ args[1].T = T
  /\ prev' = IF fn = "none" THEN <<>> ELSE <<[arg |-> args[1], res |-> res]>>
  /\ fn' = "hash"
  /\ args' = <<Arg(T, v)>>
  /\ rule' = Select(T)
  /\ res' = IF WellFormed(T) THEN Ok(quick_hash(T, v)) ELSE IllFormed

NextPair ==
  \/ \E T \in PairTypes : \E v \in Constructions(T) : HashNext(T, v)
  \/ Return

SpecPair == Init /\ [][NextPair]_vars

(***************************************************************************)
(* Properties.                                                             *)
(***************************************************************************)
\* the type and the value of the first argument of the call
T0 == args[1].T

v0 == args[1].v

Front(s) == SubSeq(s, 1, Len(s) - 1)

Last(s) == s[Len(s)]

RECURSIVE Reversed(_)
Reversed(s) == IF Len(s) = 0 THEN <<>> ELSE Append(Reversed(Tail(s)), Head(s))

Range(s) == {s[i] : i \in 1..Len(s)}

RECURSIVE ElemHashes(_, _)
\* the hashes of the elements it, each by the rule of the element type E
ElemHashes(E, it) ==
  IF Len(it) = 0 THEN <<>>
  ELSE <<quick_hash(E, Head(it))>> \o ElemHashes(E, Tail(it))

RECURSIVE ArgHashes(_)
\* the hashes of the arguments, each by the rule of its own type
ArgHashes(as) ==
  IF Len(as) = 0 THEN <<>>
  ELSE <<quick_hash(Head(as).T, Head(as).v)>> \o ArgHashes(Tail(as))

RECURSIVE LeftFold(_, _)
\* Combine(...Combine(Combine(seed, hs[1]), hs[2])..., hs[n])
LeftFold(seed, hs) ==
  IF Len(hs) = 0 THEN seed
  ELSE hash_combine(LeftFold(seed, Front(hs)), Last(hs))

RECURSIVE MapFold(_, _)
\* the Mapping Hasher of the specification: key by the key type's rule, then
\* value by the value type's rule, from the accumulator 0
MapFold(T, it) ==
  IF Len(it) = 0 THEN Zero
  ELSE hash_combine(hash_combine(MapFold(T, Front(it)),
                                 quick_hash(key_type(T), Last(it)[1])),
                    quick_hash(mapped_type(T), Last(it)[2]))

IsSequenceCall == fn = "hash" /\ T0.k \in {"vector", "list", "set"}

RECURSIVE Canon(_, _)
RECURSIVE CanonSeq(_, _, _)
\* the components v[i..] of a pair or tuple, each as its abstract value
CanonSeq(T, v, i) ==
  IF i > Len(v) THEN <<>>
  ELSE <<Canon(T.args[i], v[i])>> \o CanonSeq(T, v, i + 1)

RECURSIVE CanonElems(_, _)
CanonElems(E, v) ==
  IF Len(v) = 0 THEN <<>>
  ELSE <<Canon(E, Head(v))>> \o CanonElems(E, Tail(v))

\* the abstract value operator== compares: a set is the set of its elements,
\* a map the set of its entries (the first insertion of a key is the one
\* kept), a vector or list the sequence of its elements, whatever the order
\* of the insertions that built it
Canon(T, v) ==
  CASE T.k = "set" -> {Canon(value_type(T), x) : x \in Range(v)}
    [] T.k = "map" ->
         {<<Canon(key_type(T), v[i][1]), Canon(mapped_type(T), v[i][2])>> :
            i \in {k \in 1..Len(v) : \A j \in 1..(k - 1) : v[j][1] # v[k][1]}}
    [] T.k \in {"vector", "list"} -> CanonElems(value_type(T), v)
    [] T.k \in {"pair", "tuple"} -> CanonSeq(T, v, 1)
    [] OTHER -> v

\* C1: two containers of the same type, constructed independently, that are
\* equal (the same elements in a vector, the same contents of a set or a map,
\* whatever the order of the insertions) have the same hash.
C1_EqualValuesHashEqual ==
  (fn = "hash" /\ Len(prev) = 1) =>
     (Canon(T0, prev[1].arg.v) = Canon(T0, v0) => prev[1].res = res)

C1_Witness ==
  /\ fn = "hash" /\ Len(prev) = 1
  /\ T0 = Pair(SizeT, Set(SizeT))
  /\ prev[1].arg.v = <<ToWord(1), <<ToWord(3), ToWord(1)>>>>
  /\ v0 = <<ToWord(1), <<ToWord(1), ToWord(3)>>>>
  /\ prev[1].res = res

\* the category of the specification a specialisation of hash_impl belongs to
RuleCategory(r) ==
  CASE r = "GetHash" -> "user"
    [] r = "enum" -> "enum"
    [] r \in {"pair", "tuple"} -> "tuple"
    [] r = "map" -> "mapping"
    [] r \in {"vector", "list", "set"} -> "sequence"
    [] r = "primary" -> "primitive"
    [] OTHER -> "none"

\* the precedence of the specification
PrecedenceCategory(T) ==
  IF has_GetHash(T) THEN "user"
  ELSE IF is_enum(T) THEN "enum"
  ELSE IF T.k \in {"pair", "tuple"} THEN "tuple"
  ELSE IF T.k = "map" THEN "mapping"
  ELSE IF T.k \in {"vector", "list", "set"} THEN "sequence"
  ELSE "primitive"

\* C2: for every type the dispatcher selects one rule, the first that applies
\* in the order user-defined GetHash, enum, pair/tuple, map, sequence, std::hash;
\* no type matches two specialisations; a type with GetHash is hashed by
\* GetHash and an enum by its ordinal.
C2_DispatchPrecedence ==
  (fn \in {"hash", "HashF"}) =>
     /\ Cardinality(Matching(T0)) <= 1
     /\ RuleCategory(rule) = PrecedenceCategory(T0)
     /\ has_GetHash(T0) => (rule = "GetHash" /\ res = Ok(GetHash(T0, v0)))
     /\ is_enum(T0) => res = Ok(ToWord(v0))

C2_Witness ==
  /\ fn = "hash" /\ T0 = Wrapper /\ rule = "GetHash"
  /\ res = Ok(GetHash(T0, v0))

\* C3: HashFunction() is 0; HashFunction(v1, ..., vn), n >= 2, is the left
\* fold Combine(...Combine(Combine(Hash(v1), Hash(v2)), Hash(v3))..., Hash(vn))
\* of the arguments' own hashes.
C3_HashFunctionFoldsLeftToRight ==
  (fn = "HashFunction") =>
     /\ Len(args) = 0 => res = Ok(Zero)
     /\ Len(args) >= 2 =>
          res = Ok(LeftFold(Head(ArgHashes(args)), Tail(ArgHashes(args))))

C3_Witness ==
  /\ fn = "HashFunction" /\ Len(args) = 3
  /\ args[1].T = SizeT /\ args[2].T = Vector(SizeT) /\ args[3].T = Bool
  /\ res.h # hash_combine(quick_hash(args[1].T, args[1].v),
                          hash_combine(quick_hash(args[2].T, args[2].v),
                                       quick_hash(args[3].T, args[3].v)))

\* C4: a value of a type with GetHash is hashed by GetHash, also as an element
\* of a sequence, a component of a pair or a tuple, and a value of a map.
C4_NestedUserTypeUsesGetHash ==
  (fn = "hash") =>
     /\ T0 = Wrapper => res = Ok(GetHash(Wrapper, v0))
     /\ T0 = Vector(Wrapper) =>
          res = Ok(LeftFold(ToWord(Len(v0)), ElemHashes(Wrapper, v0)))
     /\ T0 = Pair(Wrapper, Vector(SizeT)) =>
          res = Ok(hash_combine(GetHash(Wrapper, v0[1]),
                                quick_hash(Vector(SizeT), v0[2])))
     /\ T0 = Tuple(<<Wrapper>>) =>
          res = Ok(LeftFold(ToWord(1), <<GetHash(Wrapper, v0[1])>>))
     /\ T0 = Map(SizeT, Wrapper) => res = Ok(MapFold(T0, Iterate(T0, v0)))

C6_OrderSensitive ==
  /\ (fn = "hash" /\ T0 = Vector(SizeT)
        /\ v0 = <<ToWord(1), ToWord(2), ToWord(3)>>)
       => res.h # quick_hash(T0, Reversed(v0))
  /\ \E a \in SizeTVals : \E b \in SizeTVals :
        hash_combine(a, b) # hash_combine(b, a)
  /\ IsSequenceCall =>
       res.h = LeftFold(ToWord(Len(Iterate(T0, v0))),
                        ElemHashes(value_type(T0), Iterate(T0, v0)))
  /\ (fn = "hash" /\ T0.k = "pair") =>
       res.h = LeftFold(quick_hash(T0.args[1], v0[1]),
                        <<quick_hash(T0.args[2], v0[2])>>)

C6_Witness ==
  /\ fn = "hash" /\ T0 = Vector(SizeT)
  /\ v0 = <<ToWord(1), ToWord(2), ToWord(3)>>
  /\ res.h # quick_hash(T0, <<ToWord(3), ToWord(2), ToWord(1)>>)

\* C7: the hash of a map folds, from an accumulator without a length prefix,
\* the key's hash and then the value's hash by the value type's own rule, for
\* each entry in iteration order.
C7_MapValuesUseValueHasher ==
  (fn = "hash" /\ T0.k = "map" /\ res.ok) =>
     res.h = MapFold(T0, Iterate(T0, v0))

\* C8, as claimed: a pair and a tuple are hashed by the length-seeded fold of
\* their components' hashes, so a pair and the 2-tuple of the same components
\* have the same hash.
C8_PairAndTupleAreLengthSeeded ==
  (fn = "hash" /\ T0.k \in {"pair", "tuple"} /\ res.ok) =>
     /\ res.h = LeftFold(StdHash(SizeT, ToWord(Len(T0.args))),
                         hashed_elements(T0, v0, 1))
     /\ res.h = quick_hash(Tuple(T0.args), v0)

\* C8, amended: a tuple is hashed by the length-seeded fold of its components'
\* hashes; a pair (a, b) is hashed as Combine(Hash(a), Hash(b)), without the
\* length seed.
C8_TupleLengthSeededPairNot ==
  (fn = "hash" /\ T0.k \in {"pair", "tuple"}) =>
     /\ res.ok
     /\ T0.k = "tuple" =>
          res.h = LeftFold(StdHash(SizeT, ToWord(Len(T0.args))),
                           hashed_elements(T0, v0, 1))
     /\ T0.k = "pair" =>
          res.h = hash_combine(quick_hash(T0.args[1], v0[1]),
                               quick_hash(T0.args[2], v0[2]))

C8_Witness ==
  /\ fn = "hash" /\ T0 = Pair(SizeT, Bool)
  /\ res.h # quick_hash(Tuple(T0.args), v0)

\* C9: the hash of a vector, list or set is the fold that starts from
\* Hash(size) and combines the hash of each element, by the element type's
\* rule, in iteration order; the empty sequence hashes to Hash(0).
C9_SequenceIsLengthSeededFold ==
  IsSequenceCall =>
     /\ res = Ok(LeftFold(StdHash(SizeT, ToWord(Len(Iterate(T0, v0)))),
                          ElemHashes(value_type(T0), Iterate(T0, v0))))
     /\ Len(v0) = 0 => res = Ok(StdHash(SizeT, Zero))

C9_Witness ==
  /\ IsSequenceCall /\ T0 = Set(SizeT)
  /\ v0 = <<ToWord(3), ToWord(1), ToWord(3)>>
  /\ res = Ok(hash_combine(hash_combine(ToWord(2), ToWord(1)), ToWord(3)))

\* C10: HashFunction(v) is Hash(v); HashFunction(a, b) is the hash of the
\* pair (a, b); HashF(v) is HashFunction(v).
C10_UnaryBinaryAndHashF ==
  /\ (fn = "HashFunction" /\ Len(args) = 1) => res = Ok(quick_hash(T0, v0))
  /\ (fn = "HashFunction" /\ Len(args) = 2) =>
       res = Ok(quick_hash(Pair(args[1].T, args[2].T),
                           <<args[1].v, args[2].v>>))
  /\ fn = "HashF" => res = Ok(HashFunction(args))

C10_Witness ==
  /\ fn = "HashFunction" /\ Len(args) = 2
  /\ args[1].T = SizeT /\ args[2].T = Vector(SizeT)
  /\ res = Ok(PairHash(Pair(SizeT, Vector(SizeT)), <<args[1].v, args[2].v>>))

====
